---- MODULE Spec2Model ----
(***************************************************************************)
(* State-machine model of the bvhar VAR-SV Gibbs driver                    *)
(* (src/src/estimate-sv.cpp, estimate_var_sv) and of the random-matrix     *)
(* generators (src/src/generate-distn.cpp).                                *)
(*                                                                         *)
(* The numerical content of a draw is abstracted: a history row holds the  *)
(* number of the iteration that wrote it (0 for the initialisation before  *)
(* the loop), RowZero when it still holds the zeros of                     *)
(* Eigen::MatrixXd::Zero, RowUninit when it was allocated without being    *)
(* initialised.  Shapes, row indices, the order of the writes, the return  *)
(* paths and the argument checks are modelled as the code has them.        *)
(***************************************************************************)
EXTENDS Integers, Sequences, FiniteSets, TLC

\* ------------------------------------------------------------------ bounds
MaxIter == 3
MaxDesign == 2
MaxDim == 3
MaxDimDesign == 2
MaxPriorType == 4
MaxSim == 2
MaxMatDim == 3
MaxShape2 == 7

\* ------------------------------------------------------- content of a row
RowZero == -1
RowUninit == -2

VARIABLES
  fn,           \* the exported function that was called
  num_iter, num_burn, prior_type, dim, num_design,   \* arguments of estimate_var_sv
  dim_design,   \* x.cols(), the number of regressors of an equation
  pc,           \* position in the body of the called function
  i,            \* loop counter of the Gibbs loop
  record,       \* the history matrices, by their name in the source
  prior_alpha_prec, \* row of the shrinkage history the coefficient prior precision was built from
  fault_iter,   \* iteration of the first numerical fault in a helper, 0 when none
  returned,     \* "no", "normal", "abort" (cancelled) or "error" (exception left the function)
  result,       \* the returned list: field name -> [rec, rows]
  args,         \* arguments of a generator: matrices as <<rows, cols>>, shape in halves
  outcome,      \* how the generator ended
  work,         \* the working set of the loop: for each variable, what its value was made from
  deps,         \* for each step, the iteration of its last run and what that run read
  abort_checks  \* number of calls of Progress::check_abort() so far

inputs == <<fn, num_iter, num_burn, prior_type, dim, num_design, dim_design, args, outcome>>
vars == <<fn, num_iter, num_burn, prior_type, dim, num_design, dim_design, pc, i, record,
          prior_alpha_prec, fault_iter, returned, result, args, outcome,
          work, deps, abort_checks>>
sampler == <<num_iter, num_burn, prior_type, dim, num_design, dim_design, i, record,
             prior_alpha_prec, fault_iter, returned, result, work, deps, abort_checks>>

\* ----------------------------------------------------------------- shapes
num_lowerchol == (dim * (dim - 1)) \div 2
num_coef == dim * dim_design

Written(v) == v >= 0

\* A (num_iter + 1)-row matrix: row 0 is first and the others are rest.
Matrix(n_iter, first, rest) == [r \in 0..n_iter |-> IF r = 0 THEN first ELSE rest]

\* The rows of lvol_record that hold the volatility path of iteration it.
HSegmentStrideDim(it, n_design) == (dim * it) .. (dim * it + n_design - 1)
HSegment(it, n_design) == (n_design * it) .. (n_design * it + n_design - 1)

\* The history matrices after the declarations and the initialisation.
InitRecord(n_iter, n_design, k) ==
  [ coef_record          |-> Matrix(n_iter, 0, RowZero),
    contem_coef_record   |-> Matrix(n_iter, 0, RowZero),
    lvol_sig_record      |-> Matrix(n_iter, 0, RowZero),
    lvol_init_record     |-> Matrix(n_iter, 0, RowZero),
    lvol_record          |-> [r \in 0..(n_design * (n_iter + 1) - 1) |->
                                [t \in 1..k |-> IF r \in HSegment(0, n_design)
                                                THEN 0 ELSE RowZero]],
    coef_dummy_record    |-> Matrix(n_iter, 0, RowUninit),
    coef_weight_record   |-> Matrix(n_iter, 0, RowUninit),
    contem_dummy_record  |-> Matrix(n_iter, 0, RowUninit),
    contem_weight_record |-> Matrix(n_iter, 0, RowUninit),
    local_record         |-> Matrix(n_iter, 0, RowUninit),
    global_record        |-> Matrix(n_iter, 0, RowUninit),
    shrink_record        |-> Matrix(n_iter, RowUninit, RowUninit) ]

NoResult == [f \in {} |-> 0]

\* ------------------------------------------- src/src/generate-distn.cpp
\* A matrix argument is its shape <<rows, cols>>, a vector its size.  shape
\* is a double: the model holds 2 * shape (shape2), so that 0.5 steps exist.
NoArgs ==
  [num_sim |-> 0, mu |-> 0, sig |-> <<0, 0>>, mat_mean |-> <<0, 0>>,
   mat_scale_u |-> <<0, 0>>, mat_scale_v |-> <<0, 0>>, mat_scale |-> <<0, 0>>,
   shape2 |-> 0]
NotCalled == [status |-> "pending", drawn |-> 0, dfs |-> {}, out |-> <<>>]

rows(M) == M[1]
cols(M) == M[2]

\* Rcpp::stop(msg): the exception leaves the function, nothing is returned.
\* drawn is the number of random variates drawn up to that point.
Stop(kind, drawn, dfs) == [status |-> kind, drawn |-> drawn, dfs |-> dfs, out |-> <<>>]
Return(out, drawn, dfs) == [status |-> "ok", drawn |-> drawn, dfs |-> dfs, out |-> out]

sim_mgaussian(n_sim, mu, sig) ==
  LET d == cols(sig) IN
  IF rows(sig) # d THEN Stop("dimension", 0, {})
  ELSE IF d # mu THEN Stop("dimension", 0, {})
  ELSE Return(<<n_sim, d>>, n_sim * d, {})

sim_mgaussian_chol(n_sim, mu, sig) ==
  LET d == cols(sig) IN
  IF rows(sig) # d THEN Stop("dimension", 0, {})
  ELSE IF d # mu THEN Stop("dimension", 0, {})
  ELSE Return(<<n_sim, d>>, n_sim * d, {})

sim_matgaussian(mat_mean, mat_scale_u, mat_scale_v) ==
  LET num_rows == rows(mat_mean)
      num_cols == cols(mat_mean) IN
  IF rows(mat_scale_u) # cols(mat_scale_u) THEN Stop("dimension", 0, {})
  ELSE IF num_rows # rows(mat_scale_u) THEN Stop("dimension", 0, {})
  ELSE IF rows(mat_scale_v) # cols(mat_scale_v) THEN Stop("dimension", 0, {})
  ELSE IF num_cols # rows(mat_scale_v) THEN Stop("dimension", 0, {})
  ELSE Return(<<num_rows, num_cols>>, num_rows * num_cols, {})

\* shape <= dim - 1
ShapeCheckStrict(shape2, d) == shape2 < 2 * (d - 1)
ShapeCheck(shape2, d) == shape2 <= 2 * (d - 1)

\* The Bartlett factor: row i0 draws chisq_rand(shape - i0) and one norm_rand()
\* for each j in i0 + 1 .. dim - 1.  The degrees of freedom are kept doubled.
BartlettDfs(shape2, d) == {shape2 - 2 * i0 : i0 \in 0..(d - 1)}
BartlettDraws(d) == d + (d * (d - 1)) \div 2

sim_iw_tri(mat_scale, shape2) ==
  LET d == cols(mat_scale) IN
  IF ShapeCheck(shape2, d) THEN Stop("shape", 0, {})
  ELSE IF rows(mat_scale) # cols(mat_scale) THEN Stop("dimension", 0, {})
  ELSE IF d # rows(mat_scale) THEN Stop("dimension", 0, {})
  ELSE Return(<<d, d>>, BartlettDraws(d), BartlettDfs(shape2, d))

sim_iw(mat_scale, shape2) ==
  LET chol_res == sim_iw_tri(mat_scale, shape2) IN
  IF chol_res.status # "ok" THEN chol_res
  ELSE Return(<<rows(chol_res.out), rows(chol_res.out)>>, chol_res.drawn, chol_res.dfs)

\* The loop of sim_mniw from iteration k on, drawn and dfs being what the
\* iterations before k have drawn.
RECURSIVE MniwLoop(_, _, _, _, _, _, _, _)
MniwLoop(k, n_sim, mat_mean, mat_scale_u, mat_scale, shape2, drawn, dfs) ==
  LET dim_iw == cols(mat_scale) IN
  IF ~(k < n_sim)
    THEN Return([mn |-> <<rows(mat_mean), n_sim * cols(mat_mean)>>,
                 iw |-> <<dim_iw, n_sim * dim_iw>>], drawn, dfs)
    ELSE
      LET chol_res == sim_iw_tri(mat_scale, shape2) IN
      IF chol_res.status # "ok"
        THEN Stop(chol_res.status, drawn + chol_res.drawn, dfs \cup chol_res.dfs)
        ELSE
          LET mn == sim_matgaussian(mat_mean, mat_scale_u, <<dim_iw, dim_iw>>) IN
          IF mn.status # "ok"
            THEN Stop(mn.status, drawn + chol_res.drawn + mn.drawn, dfs \cup chol_res.dfs)
            ELSE MniwLoop(k + 1, n_sim, mat_mean, mat_scale_u, mat_scale, shape2,
                          drawn + chol_res.drawn + mn.drawn, dfs \cup chol_res.dfs)

sim_mniw(n_sim, mat_mean, mat_scale_u, mat_scale, shape2) ==
  LET dim_iw == cols(mat_scale) IN
  IF dim_iw # rows(mat_scale) THEN Stop("dimension", 0, {})
  ELSE MniwLoop(0, n_sim, mat_mean, mat_scale_u, mat_scale, shape2, 0, {})

Shapes == (1..MaxMatDim) \X (1..MaxMatDim)

Generators ==
  {"sim_mgaussian", "sim_mgaussian_chol", "sim_matgaussian", "sim_iw_tri", "sim_iw", "sim_mniw"}

\* The arguments each generator reads; the others stay as in NoArgs.
ArgsOf(f) ==
  CASE f \in {"sim_mgaussian", "sim_mgaussian_chol"} ->
         {[NoArgs EXCEPT !.num_sim = n, !.mu = m, !.sig = s] :
            n \in 0..MaxSim, m \in 1..MaxMatDim, s \in Shapes}
    [] f = "sim_matgaussian" ->
         {[NoArgs EXCEPT !.mat_mean = m, !.mat_scale_u = u, !.mat_scale_v = v] :
            m \in Shapes, u \in Shapes, v \in Shapes}
    [] f \in {"sim_iw_tri", "sim_iw"} ->
         {[NoArgs EXCEPT !.mat_scale = s, !.shape2 = h] :
            s \in Shapes, h \in 0..MaxShape2}
    [] OTHER ->
         {[NoArgs EXCEPT !.num_sim = n, !.mat_mean = m, !.mat_scale_u = u,
                         !.mat_scale = s, !.shape2 = h] :
            n \in 0..MaxSim, m \in Shapes, u \in Shapes, s \in Shapes, h \in 0..MaxShape2}

InitDistn ==
  /\ fn \in Generators
  /\ args \in ArgsOf(fn)
  /\ outcome = NotCalled
  /\ pc = "call"
  /\ num_iter = 0 /\ num_burn = 0 /\ prior_type = 0 /\ dim = 0 /\ num_design = 0
  /\ dim_design = 0
  /\ i = 0
  /\ record = NoResult
  /\ prior_alpha_prec = RowZero
  /\ fault_iter = 0
  /\ returned = "no"
  /\ result = NoResult
  /\ work = NoResult
  /\ deps = NoResult
  /\ abort_checks = 0

Call(f, res) ==
  /\ fn = f
  /\ pc = "call"
  /\ outcome' = res
  /\ pc' = "done"
  /\ UNCHANGED <<fn, args, sampler>>

CallSimMgaussian == Call("sim_mgaussian", sim_mgaussian(args.num_sim, args.mu, args.sig))
CallSimMgaussianChol ==
  Call("sim_mgaussian_chol", sim_mgaussian_chol(args.num_sim, args.mu, args.sig))
CallSimMatgaussian ==
  Call("sim_matgaussian", sim_matgaussian(args.mat_mean, args.mat_scale_u, args.mat_scale_v))
CallSimIwTri == Call("sim_iw_tri", sim_iw_tri(args.mat_scale, args.shape2))
CallSimIw == Call("sim_iw", sim_iw(args.mat_scale, args.shape2))
CallSimMniw ==
  Call("sim_mniw", sim_mniw(args.num_sim, args.mat_mean, args.mat_scale_u,
                            args.mat_scale, args.shape2))


\* ------------------------------------------------- the Gibbs loop's steps
\* The five updates of one iteration, in the order of the loop body.
NextStepSwapped(step) ==
  CASE step = "alpha" -> "a"
    [] step = "a"     -> "h"
    [] step = "h"     -> "sigh"
    [] step = "sigh"  -> "h0"
    [] OTHER          -> "loop"
NextStep(step) ==
  CASE step = "alpha" -> "h"
    [] step = "h"     -> "a"
    [] step = "a"     -> "sigh"
    [] step = "sigh"  -> "h0"
    [] OTHER          -> "loop"

\* How a helper of bvhardraw.h (varsv_regression, varsv_ht) ends when the
\* precision it factorises is not positive definite: it returns what the
\* failed factorisation gives ("nan"), or it raises ("raised").  The body of
\* the loop has no handler for either.
FaultOutcomes == {"none", "nan", "raised"}

Write(rec, name, row, v) == [rec EXCEPT ![name][row] = v]

\* M.bottomRows(n), each returned row with the index it had in M.
BottomRowsTop(M, n) ==
  [k \in 1..n |-> [row |-> k - 1, val |-> M[k - 1]]]
BottomRows(M, n) ==
  [k \in 1..n |-> [row |-> Cardinality(DOMAIN M) - n + k - 1,
                   val |-> M[Cardinality(DOMAIN M) - n + k - 1]]]

\* A matrix handed to Rcpp::Named(...) = M as it is.
Whole(rec, name) ==
  [rec |-> name, rows |-> BottomRows(rec[name], Cardinality(DOMAIN rec[name]))]
Trimmed(rec, name) ==
  [rec |-> name, rows |-> BottomRows(rec[name], num_iter - num_burn)]

\* The list returned inside the loop when Progress::check_abort() is true.
AbortReturnNoExtras(rec) ==
  [ alpha_record  |-> Whole(rec, "coef_record"),
    h_record      |-> Whole(rec, "lvol_record"),
    a_record      |-> Whole(rec, "contem_coef_record"),
    h0_record     |-> Whole(rec, "lvol_init_record"),
    sigh_record   |-> Whole(rec, "lvol_sig_record") ]
AbortReturn(rec) ==
  IF prior_type = 2 THEN
    [ alpha_record  |-> Whole(rec, "coef_record"),
      h_record      |-> Whole(rec, "lvol_record"),
      a_record      |-> Whole(rec, "contem_coef_record"),
      h0_record     |-> Whole(rec, "lvol_init_record"),
      sigh_record   |-> Whole(rec, "lvol_sig_record"),
      gamma_record  |-> Whole(rec, "coef_dummy_record") ]
  ELSE IF prior_type = 3 THEN
    [ alpha_record  |-> Whole(rec, "coef_record"),
      h_record      |-> Whole(rec, "lvol_record"),
      a_record      |-> Whole(rec, "contem_coef_record"),
      h0_record     |-> Whole(rec, "lvol_init_record"),
      sigh_record   |-> Whole(rec, "lvol_sig_record"),
      lambda_record |-> Whole(rec, "local_record"),
      tau_record    |-> Whole(rec, "global_record"),
      kappa_record  |-> Whole(rec, "shrink_record") ]
  ELSE
    [ alpha_record  |-> Whole(rec, "coef_record"),
      h_record      |-> Whole(rec, "lvol_record"),
      a_record      |-> Whole(rec, "contem_coef_record"),
      h0_record     |-> Whole(rec, "lvol_init_record"),
      sigh_record   |-> Whole(rec, "lvol_sig_record") ]

\* The list returned after the loop.
NormalReturn(rec) ==
  IF prior_type = 2 THEN
    [ alpha_record  |-> Trimmed(rec, "coef_record"),
      h_record      |-> Whole(rec, "lvol_record"),
      a_record      |-> Trimmed(rec, "contem_coef_record"),
      h0_record     |-> Trimmed(rec, "lvol_init_record"),
      sigh_record   |-> Trimmed(rec, "lvol_sig_record"),
      gamma_record  |-> Trimmed(rec, "coef_dummy_record") ]
  ELSE IF prior_type = 3 THEN
    [ alpha_record  |-> Trimmed(rec, "coef_record"),
      h_record      |-> Whole(rec, "lvol_record"),
      a_record      |-> Trimmed(rec, "contem_coef_record"),
      h0_record     |-> Trimmed(rec, "lvol_init_record"),
      sigh_record   |-> Trimmed(rec, "lvol_sig_record"),
      lambda_record |-> Trimmed(rec, "local_record"),
      tau_record    |-> Trimmed(rec, "global_record"),
      kappa_record  |-> Trimmed(rec, "shrink_record") ]
  ELSE
    [ alpha_record  |-> Trimmed(rec, "coef_record"),
      h_record      |-> Whole(rec, "lvol_record"),
      a_record      |-> Trimmed(rec, "contem_coef_record"),
      h0_record     |-> Trimmed(rec, "lvol_init_record"),
      sigh_record   |-> Trimmed(rec, "lvol_sig_record") ]

\* --------------------------------------------- working set and its reads
\* What a value was made from: <<name, row>> is row `row` of the history
\* matrix `name` (for lvol_record the block of iteration `row`); "input" is an
\* argument of the call, "unrecorded" a draw of iteration `row` that no
\* history matrix holds, "zero" and "uninit" a variable not assigned yet.
Row(name, r) == <<name, r>>

\* The variables declared ahead of the loop that outlive an iteration.
InitWork ==
  [ chol_lower         |-> Row("zero", 0),
    innov_prec         |-> Row("zero", 0),
    latent_innov       |-> {Row("uninit", 0)},
    init_local         |-> Row("local_record", 0),
    chol_slab_weight   |-> Row("contem_weight_record", 0),
    init_contem_local  |-> Row("input", 0),
    init_contem_global |-> Row("input", 0),
    reginnov_id        |-> 0,
    reginnov_starts    |-> <<>>,
    reginnov_segs      |-> <<>>,
    reginnov_stack     |-> [r \in 0..(num_design * dim - 1) |->
                             [c \in 0..(num_lowerchol - 1) |-> RowZero]] ]

Steps == {"alpha", "h", "a", "sigh", "h0"}
NoDeps == [s \in Steps |-> [iter |-> 0, reads |-> {}]]
Reads(step, reads) == [deps EXCEPT ![step] = [iter |-> i, reads |-> reads]]

\* 1. alpha: chol_lower and innov_prec are rebuilt from row i - 1 of the
\* loadings and from the path of iteration i - 1; init_local is redrawn under
\* the Horseshoe and stored as row i of local_record.  AlphaReadsBefore is
\* what is read up to the call of varsv_regression, AlphaReads what the whole
\* step reads (ssvs_mn_weight takes row i of coef_dummy_record).
AlphaReadsBefore ==
  {Row("contem_coef_record", i - 1), Row("lvol_record", i - 1)} \cup
  (CASE prior_type = 2 -> {Row("coef_dummy_record", i - 1)}
     [] prior_type = 3 -> {Row("global_record", i - 1), work.init_local}
     [] OTHER          -> {})
AlphaReads ==
  AlphaReadsBefore \cup
  (CASE prior_type = 2 -> {Row("coef_record", i), Row("coef_weight_record", i - 1),
                           Row("coef_dummy_record", i)}
     [] prior_type = 3 -> {Row("local_record", i - 1), Row("global_record", i - 1),
                           Row("coef_record", i)}
     [] OTHER          -> {})
WorkBeforeAlpha ==
  [work EXCEPT !.chol_lower = Row("contem_coef_record", i - 1),
               !.innov_prec = Row("lvol_record", i - 1)]
WorkAfterAlpha ==
  [WorkBeforeAlpha EXCEPT
     !.init_local = IF prior_type = 3 THEN Row("local_record", i) ELSE @]

\* 2. h: coef_mat = Map(coef_record.row(i).data(), dim_design, dim) takes
\* num_coef consecutive doubles from the address of cell (it, 0) of the
\* column-major (num_iter + 1) x num_coef matrix: cell k of the map is in row
\* (it + k) mod (num_iter + 1).
CoefMapRows(it) == {(it + k) % (num_iter + 1) : k \in 0..(num_coef - 1)}
\* latent_innov = y - x * coef_mat; varsv_ht gets the path, h0 and sigma_h of
\* iteration i - 1.
HReads ==
  {Row("coef_record", r) : r \in CoefMapRows(i)} \cup
  {work.chol_lower, Row("lvol_record", i - 1),
   Row("lvol_init_record", i - 1), Row("lvol_sig_record", i - 1)}
WorkAfterH == [work EXCEPT !.latent_innov = {Row("coef_record", r) : r \in CoefMapRows(i)}]

\* 3. a: the design reginnov_stack.  For every time point t and every
\* j in 1 .. dim - 1, row j of block t gets segment(reginnov_id, j), then
\* reginnov_id += j; after the j loop reginnov_id = 0.
AdvanceId(id, j) == id + j
ResetIdKept(id) == id
ResetId(id) == 0
RECURSIVE EquationLoop(_, _, _, _)
EquationLoop(t, j, id, segs) ==
  IF ~(j < dim)
    THEN [id |-> id, segs |-> segs]
    ELSE EquationLoop(t, j + 1, AdvanceId(id, j),
                      Append(segs, [t |-> t, row |-> t * dim + j, start |-> id, len |-> j]))
RECURSIVE TimeLoop(_, _, _, _)
TimeLoop(t, id, starts, segs) ==
  IF ~(t < num_design)
    THEN [id |-> id, starts |-> starts, segs |-> segs]
    ELSE LET body == EquationLoop(t, 1, id, segs)
         IN TimeLoop(t + 1, ResetId(body.id), Append(starts, id), body.segs)
\* reginnov_stack (num_design * dim rows, num_lowerchol columns, zero at first)
\* after the writes segs of iteration i.
ReginnovStack(old, segs) ==
  [r \in DOMAIN old |->
     [c \in DOMAIN old[r] |->
        IF \E n \in 1..Len(segs) :
             segs[n].row = r /\ c \in segs[n].start..(segs[n].start + segs[n].len - 1)
          THEN i ELSE old[r][c]]]

\* The loading draw takes latent_innov and the innov_prec built in step 1;
\* the regime's shrinkage of the loadings comes first.
AReads ==
  work.latent_innov \cup {work.innov_prec} \cup
  (CASE prior_type = 2 -> {Row("contem_coef_record", i - 1), work.chol_slab_weight}
     [] prior_type = 3 -> {work.init_contem_local, work.init_contem_global,
                           Row("contem_coef_record", i - 1)}
     [] OTHER          -> {})
WorkAfterA ==
  LET design == TimeLoop(0, work.reginnov_id, <<>>, <<>>) IN
  [work EXCEPT !.reginnov_id = design.id,
               !.reginnov_starts = design.starts,
               !.reginnov_segs = design.segs,
               !.reginnov_stack = ReginnovStack(@, design.segs),
               !.chol_slab_weight =
                  IF prior_type = 2 THEN Row("contem_weight_record", i) ELSE @,
               !.init_contem_local = IF prior_type = 3 THEN Row("unrecorded", i) ELSE @,
               !.init_contem_global = IF prior_type = 3 THEN Row("unrecorded", i) ELSE @]

\* 4. sigma_h and 5. h0
SighReads == {Row("lvol_init_record", i - 1), Row("lvol_record", i)}
H0Reads == {Row("lvol_init_record", i - 1), Row("lvol_record", i), Row("lvol_sig_record", i)}

InitSampler ==
  /\ fn = "estimate_var_sv"
  /\ num_iter \in 1..MaxIter
  /\ num_burn \in 0..num_iter
  /\ prior_type \in 0..MaxPriorType
  /\ dim \in 1..MaxDim
  /\ num_design \in 1..MaxDesign
  /\ dim_design \in 1..MaxDimDesign
  /\ pc = "loop"
  /\ i = 1
  /\ record = InitRecord(num_iter, num_design, dim)
  /\ prior_alpha_prec = (IF prior_type = 1 THEN 0 ELSE RowZero)
  /\ fault_iter = 0
  /\ returned = "no"
  /\ result = NoResult
  /\ args = NoArgs
  /\ outcome = NotCalled
  /\ work = InitWork
  /\ deps = NoDeps
  /\ abort_checks = 0


\* for (i = 1; i < num_iter + 1; i++) { if (Progress::check_abort()) return ...
Cancel ==
  /\ pc = "loop"
  /\ i < num_iter + 1
  /\ pc' = "done"
  /\ returned' = "abort"
  /\ result' = AbortReturn(record)
  /\ abort_checks' = abort_checks + 1
  /\ UNCHANGED <<inputs, i, record, prior_alpha_prec, fault_iter, work, deps>>

\* check_abort() is false: p.increment() and the body of the loop starts.
BeginIteration ==
  /\ pc = "loop"
  /\ i < num_iter + 1
  /\ pc' = "alpha"
  /\ abort_checks' = abort_checks + 1
  /\ UNCHANGED <<inputs, i, record, prior_alpha_prec, fault_iter, returned, result, work, deps>>

\* The end of a step that calls a helper with outcome o: before is the
\* history written ahead of the call, after the history once the helper's
\* value is stored.
HelperStep(step, o, before, after) ==
  /\ fault_iter' = (IF o # "none" /\ fault_iter = 0 THEN i ELSE fault_iter)
  /\ IF o = "raised"
       THEN /\ record' = before
            /\ pc' = "done"
            /\ returned' = "error"
       ELSE /\ record' = after
            /\ pc' = NextStep(step)
            /\ returned' = returned

\* 1. alpha: the prior precision of the regime, the coefficient draw and the
\* regime's shrinkage draws.  An unrecognised prior_type matches no case.
PriorAlphaPrec ==
  CASE prior_type = 2 -> record.coef_dummy_record[i - 1]
    [] prior_type = 3 -> record.global_record[i - 1]
    [] OTHER          -> prior_alpha_prec
BeforeAlpha ==
  IF prior_type = 3
    THEN Write(record, "shrink_record", i - 1, PriorAlphaPrec)
    ELSE record
AfterAlpha ==
  CASE prior_type = 1 -> Write(record, "coef_record", i, i)
    [] prior_type = 2 -> Write(Write(Write(record, "coef_record", i, i),
                                     "coef_dummy_record", i, i),
                               "coef_weight_record", i, i)
    [] prior_type = 3 -> Write(Write(Write(BeforeAlpha, "coef_record", i, i),
                                     "local_record", i, i),
                               "global_record", i, i)
    [] OTHER          -> record
StepAlpha ==
  /\ pc = "alpha"
  /\ prior_alpha_prec' = PriorAlphaPrec
  /\ \E o \in (IF prior_type \in 1..3 THEN FaultOutcomes ELSE {"none"}) :
       HelperStep("alpha", o, BeforeAlpha, AfterAlpha)
  /\ IF returned' = "error"
       THEN work' = WorkBeforeAlpha /\ deps' = Reads("alpha", AlphaReadsBefore)
       ELSE work' = WorkAfterAlpha /\ deps' = Reads("alpha", AlphaReads)
  /\ UNCHANGED <<inputs, i, result, abort_checks>>

\* 2. h: for every equation t the path of iteration i goes to the segment
\* (num_design * i, num_design) of column t, one varsv_ht call per column:
\* AfterHColumns(n) is the history once the first n calls have stored theirs.
AfterHColumns(n) ==
  [record EXCEPT !.lvol_record =
     [r \in DOMAIN record.lvol_record |->
        IF r \in HSegment(i, num_design)
          THEN [t \in 1..dim |-> IF t <= n THEN i ELSE record.lvol_record[r][t]]
          ELSE record.lvol_record[r]]]
AfterH == AfterHColumns(dim)
StepH ==
  /\ pc = "h"
  /\ \E o \in FaultOutcomes : \E t \in 0..(dim - 1) :
       HelperStep("h", o, AfterHColumns(t), AfterH)
  /\ work' = WorkAfterH
  /\ deps' = Reads("h", HReads)
  /\ UNCHANGED <<inputs, i, prior_alpha_prec, result, abort_checks>>

\* 3. a: the regime's shrinkage of the loadings, then the loading draw.
BeforeA ==
  IF prior_type = 2
    THEN Write(Write(record, "contem_dummy_record", i, i), "contem_weight_record", i, i)
    ELSE record
AfterA == Write(BeforeA, "contem_coef_record", i, i)
StepA ==
  /\ pc = "a"
  /\ \E o \in FaultOutcomes : HelperStep("a", o, BeforeA, AfterA)
  /\ work' = WorkAfterA
  /\ deps' = Reads("a", AReads)
  /\ UNCHANGED <<inputs, i, prior_alpha_prec, result, abort_checks>>

\* 4. sigma_h
StepSigh ==
  /\ pc = "sigh"
  /\ record' = Write(record, "lvol_sig_record", i, i)
  /\ pc' = NextStep("sigh")
  /\ deps' = Reads("sigh", SighReads)
  /\ UNCHANGED <<inputs, i, prior_alpha_prec, fault_iter, returned, result, work, abort_checks>>

\* 5. h0, the last statement of the body: i++ follows.
StepH0 ==
  /\ pc = "h0"
  /\ record' = Write(record, "lvol_init_record", i, i)
  /\ pc' = NextStep("h0")
  /\ i' = i + 1
  /\ deps' = Reads("h0", H0Reads)
  /\ UNCHANGED <<inputs, prior_alpha_prec, fault_iter, returned, result, work, abort_checks>>

\* The loop is over: the last shrinkage-factor row (Horseshoe) and the
\* trimmed return.
FinalRecord ==
  IF prior_type = 3
    THEN Write(record, "shrink_record", num_iter, prior_alpha_prec)
    ELSE record
Finish ==
  /\ pc = "loop"
  /\ ~(i < num_iter + 1)
  /\ record' = FinalRecord
  /\ result' = NormalReturn(FinalRecord)
  /\ returned' = "normal"
  /\ pc' = "done"
  /\ UNCHANGED <<inputs, i, prior_alpha_prec, fault_iter, work, deps, abort_checks>>

Init == InitSampler \/ InitDistn

Next ==
  \/ Cancel
  \/ BeginIteration
  \/ StepAlpha
  \/ StepH
  \/ StepA
  \/ StepSigh
  \/ StepH0
  \/ Finish
  \/ CallSimMgaussian
  \/ CallSimMgaussianChol
  \/ CallSimMatgaussian
  \/ CallSimIwTri
  \/ CallSimIw
  \/ CallSimMniw

Spec == Init /\ [][Next]_vars
\* ------------------------------------------------------------- properties
Sampler == fn = "estimate_var_sv"
Regimes == 1..3
Common ==
  {"coef_record", "lvol_record", "contem_coef_record", "lvol_init_record", "lvol_sig_record"}
NonVolatility == DOMAIN result \ {"h_record"}

\* The rows of lvol_record that belong to iteration it.
PathRows(it) == {r \in DOMAIN record.lvol_record : r \div num_design = it}
\* The h step of iteration it is over.
PathDrawn(it) == it = 0 \/ it < i \/ (it = i /\ pc \in {"a", "sigh", "h0"})

\* C1: when estimate_var_sv is cancelled after k = i - 1 completed iterations,
\* every returned trajectory other than the volatility path has exactly k + 1
\* rows, the rows of iterations 0..k, and no row of an iteration that never ran.
C1_CancelledRowsAreCompletedIterations ==
  (Sampler /\ returned = "abort") =>
    \A f \in NonVolatility :
      /\ Len(result[f].rows) = (i - 1) + 1
      /\ \A n \in 1..Len(result[f].rows) : result[f].rows[n].row = n - 1

\* C2: for each regime 1, 2, 3 the field names of the list returned on
\* cancellation are the field names of the list returned on normal completion
\* for that regime.
C2_CancelledFieldsEqualNormalFields ==
  (Sampler /\ prior_type \in Regimes /\ returned \in {"abort", "normal"}) =>
    /\ DOMAIN result = DOMAIN NormalReturn(record)
    /\ DOMAIN result = DOMAIN AbortReturn(record)
C2_Witness ==
  Sampler /\ returned = "abort" /\ prior_type = 2 /\ i = 2 /\ "gamma_record" \in DOMAIN result

\* C3: for every regime and 0 <= num_burn < num_iter, every trajectory except
\* the volatility path has num_iter + 1 rows (0..num_iter) before trimming, and
\* on normal completion the returned trajectory has num_iter - num_burn rows,
\* which are rows num_burn + 1 .. num_iter, each written by its own iteration
\* (the shrinkage-factor rows hold the scales row they were computed from).
C3_TrimmedRows ==
  (Sampler /\ prior_type \in Regimes /\ num_burn < num_iter) =>
    /\ \A name \in DOMAIN record \ {"lvol_record"} : DOMAIN record[name] = 0..num_iter
    /\ returned = "normal" =>
         \A f \in NonVolatility :
           LET M == record[result[f].rec]
               got == result[f].rows
           IN /\ Len(got) = num_iter - num_burn
              /\ \A n \in 1..Len(got) :
                   /\ got[n].row = num_burn + n
                   /\ got[n].val = M[num_burn + n]
                   /\ Written(got[n].val)
                   /\ f # "kappa_record" => got[n].val = num_burn + n
C3_Witness ==
  /\ Sampler /\ returned = "normal" /\ prior_type = 3
  /\ num_burn = 1 /\ num_iter = 3
  /\ Len(result.kappa_record.rows) = 2

\* C4: on every return path h_record is the whole of lvol_record, never
\* trimmed, and the path of iteration it (0..num_iter), for every equation,
\* is exactly the num_design rows num_design * it .. num_design * (it + 1) - 1:
\* those rows hold it once the path of it is drawn, and no other iteration
\* ever writes them.
C4_VolatilityPathLayout ==
  Sampler =>
    /\ DOMAIN record.lvol_record = 0..(num_design * (num_iter + 1) - 1)
    /\ \A it \in 0..num_iter :
         /\ PathRows(it) = (num_design * it)..(num_design * (it + 1) - 1)
         /\ Cardinality(PathRows(it)) = num_design
         /\ \A r \in PathRows(it) : \A t \in 1..dim :
              /\ record.lvol_record[r][t] \in {RowZero, it}
              /\ PathDrawn(it) => record.lvol_record[r][t] = it
    /\ returned \in {"abort", "normal"} =>
         /\ result.h_record.rec = "lvol_record"
         /\ Len(result.h_record.rows) = num_design * (num_iter + 1)
         /\ \A n \in 1..Len(result.h_record.rows) :
              /\ result.h_record.rows[n].row = n - 1
              /\ result.h_record.rows[n].val = record.lvol_record[n - 1]
C4_Witness ==
  /\ Sampler /\ returned = "normal" /\ num_burn = 1 /\ num_iter = 2
  /\ num_design = 2 /\ dim = 2
  /\ result.h_record.rows[6].val = [t \in 1..2 |-> 2]

\* C5: the returned list holds the five common trajectories and the extras of
\* the regime: SSVS the inclusion indicators and the inclusion weights,
\* Horseshoe the local scales, the global scales and the shrinkage factor,
\* Minnesota none.
C5_BundleHoldsRegimeExtras ==
  (Sampler /\ prior_type \in Regimes /\ returned \in {"abort", "normal"}) =>
    LET got == {result[f].rec : f \in DOMAIN result} IN
    /\ Common \subseteq got
    /\ prior_type = 1 => got = Common
    /\ prior_type = 2 => {"coef_dummy_record", "coef_weight_record"} \subseteq got
    /\ prior_type = 3 => got \ Common = {"local_record", "global_record", "shrink_record"}

\* C6: with prior_type outside {1, 2, 3} estimate_var_sv fails: no Gibbs
\* iteration runs and no list is returned.
C6_InvalidRegimeFails ==
  (Sampler /\ prior_type \notin Regimes) =>
    /\ pc \notin {"alpha", "h", "a", "sigh", "h0"}
    /\ i = 1
    /\ returned \notin {"abort", "normal"}

\* What the generators document as their arguments: square scale matrices
\* that fit the mean.
Square(M) == rows(M) = cols(M)
WellFormed ==
  CASE fn \in {"sim_mgaussian", "sim_mgaussian_chol"} ->
         Square(args.sig) /\ cols(args.sig) = args.mu
    [] fn = "sim_matgaussian" ->
         /\ Square(args.mat_scale_u) /\ rows(args.mat_scale_u) = rows(args.mat_mean)
         /\ Square(args.mat_scale_v) /\ rows(args.mat_scale_v) = cols(args.mat_mean)
    [] fn \in {"sim_iw_tri", "sim_iw"} -> Square(args.mat_scale)
    [] OTHER ->
         /\ Square(args.mat_scale_u) /\ rows(args.mat_scale_u) = rows(args.mat_mean)
         /\ Square(args.mat_scale) /\ rows(args.mat_scale) = cols(args.mat_mean)
\* shape > dim - 1, for the generators that take a shape.
ShapeAdmissible ==
  fn \in {"sim_iw_tri", "sim_iw", "sim_mniw"} =>
    args.shape2 > 2 * (cols(args.mat_scale) - 1)

\* C7: every generator rejects non-square or dimension-incompatible arguments
\* with the dimension error, for every num_sim >= 0, before any random variate
\* is drawn and without output (the shape being admissible, so that no other
\* error is due).
C7_DimensionMismatchRejectedEagerly ==
  (fn \in Generators /\ pc = "done" /\ ~WellFormed /\ ShapeAdmissible) =>
    /\ outcome.status = "dimension"
    /\ outcome.drawn = 0
    /\ outcome.out = <<>>

\* C8: sim_iw_tri, sim_iw and sim_mniw (num_sim >= 1, dim x dim scale matrix)
\* end with the shape error whenever shape <= dim - 1, before any random
\* variate is drawn; when shape > dim - 1 there is no shape error and every
\* chi-square degrees of freedom shape - i0, i0 in 0..dim - 1, is > 0.
C8_ShapeCheck ==
  ( /\ fn \in {"sim_iw_tri", "sim_iw", "sim_mniw"}
    /\ pc = "done"
    /\ fn = "sim_mniw" => (args.num_sim >= 1 /\ Square(args.mat_scale)) ) =>
    LET d == cols(args.mat_scale) IN
    /\ args.shape2 <= 2 * (d - 1) =>
         /\ outcome.status = "shape"
         /\ outcome.drawn = 0
         /\ outcome.dfs = {}
         /\ outcome.out = <<>>
    /\ args.shape2 > 2 * (d - 1) =>
         /\ outcome.status # "shape"
         /\ \A df \in outcome.dfs : df > 0
         /\ outcome.drawn > 0 => outcome.dfs = {args.shape2 - 2 * i0 : i0 \in 0..(d - 1)}
C8_Witness ==
  /\ fn = "sim_mniw" /\ pc = "done"
  /\ args.num_sim = 2 /\ args.mat_scale = <<3, 3>> /\ args.shape2 = 4
  /\ args.mat_mean = <<2, 3>> /\ args.mat_scale_u = <<2, 2>>
  /\ outcome.status = "shape"

\* C9: a numerical fault in a regression or SV step of iteration i ends the
\* run there with a return in the form of a cancellation, holding the
\* history through iteration i - 1.
C9_FaultReturnsHistory ==
  (Sampler /\ fault_iter > 0) =>
    /\ pc = "done"
    /\ returned = "abort"
    /\ i = fault_iter
    /\ DOMAIN result = DOMAIN AbortReturn(record)

\* C10: in every iteration j of every regime the rows j are written in the
\* order alpha, h, a, sigma_h, h0: a later step's row j is never written
\* while an earlier step's row j is not.
AlphaRow(j) == Written(record.coef_record[j])
PathAny(j) == \E r \in PathRows(j) : \E t \in 1..dim : Written(record.lvol_record[r][t])
PathAll(j) == \A r \in PathRows(j) : \A t \in 1..dim : Written(record.lvol_record[r][t])
LoadingRow(j) == Written(record.contem_coef_record[j])
SighRow(j) == Written(record.lvol_sig_record[j])
InitRow(j) == Written(record.lvol_init_record[j])
C10_StepOrder ==
  (Sampler /\ prior_type \in Regimes) =>
    \A j \in 1..num_iter :
      /\ PathAny(j) => AlphaRow(j)
      /\ LoadingRow(j) => PathAll(j)
      /\ SighRow(j) => LoadingRow(j)
      /\ InitRow(j) => SighRow(j)
C10_Witness ==
  /\ Sampler /\ prior_type = 2 /\ i = 2 /\ pc = "a"
  /\ AlphaRow(2) /\ PathAll(2) /\ ~LoadingRow(2)

\* ------------------------------------------ properties of the data flow
LastRun(step) == deps[step].iter
ReadBy(step) == deps[step].reads
\* The rows of coef_record a step has read.
CoefRowsReadBy(step) == {p[2] : p \in {q \in ReadBy(step) : q[1] = "coef_record"}}

\* C11: in iteration i the loading draw (row i of a_record) is computed from
\* the coefficients drawn in iteration i and from the volatility path drawn in
\* iteration i, not from the path of iteration i - 1; the coefficient step
\* reads the loadings and the path of iteration i - 1, the h step reads the
\* coefficients of iteration i, the sigma_h and h0 steps read the path of
\* iteration i.
C11_StepInputs ==
  (Sampler /\ prior_type \in Regimes) =>
    /\ LastRun("alpha") > 0 => /\ Row("contem_coef_record", LastRun("alpha") - 1) \in ReadBy("alpha")
                               /\ Row("lvol_record", LastRun("alpha") - 1) \in ReadBy("alpha")
    /\ LastRun("h") > 0 => CoefRowsReadBy("h") = {LastRun("h")}
    /\ LastRun("a") > 0 => /\ CoefRowsReadBy("a") = {LastRun("a")}
                           /\ Row("lvol_record", LastRun("a")) \in ReadBy("a")
                           /\ Row("lvol_record", LastRun("a") - 1) \notin ReadBy("a")
    /\ LastRun("sigh") > 0 => Row("lvol_record", LastRun("sigh")) \in ReadBy("sigh")
    /\ LastRun("h0") > 0 => Row("lvol_record", LastRun("h0")) \in ReadBy("h0")

\* C12: for every regime and every j in 1..num_iter, row j of the recorded
\* history is made from row j - 1 of the recorded history (and from what
\* iteration j itself has drawn into row j) only: every value a step of
\* iteration j reads is an argument of the call or sits in row j - 1 or row j
\* of a history matrix, never in an older row and never in working state that
\* no history matrix holds.  A row after j of a zero-initialised matrix holds
\* the zeros of its allocation when iteration j runs and carries no history.
C12_FirstOrderMarkov ==
  (Sampler /\ prior_type \in Regimes) =>
    \A step \in Steps :
      LastRun(step) > 0 =>
        \A p \in ReadBy(step) :
          \/ p[1] = "input"
          \/ /\ p[1] \in DOMAIN record
             /\ p[2] \in {LastRun(step) - 1, LastRun(step)}
          \/ /\ p[1] \in Common
             /\ p[2] > LastRun(step)

\* The trajectories of the regime: the five common ones and its extras.
Trajectories ==
  {"coef_record", "contem_coef_record", "lvol_sig_record", "lvol_init_record"} \cup
  (CASE prior_type = 2 -> {"coef_dummy_record", "coef_weight_record",
                           "contem_dummy_record", "contem_weight_record"}
     [] prior_type = 3 -> {"local_record", "global_record", "shrink_record"}
     [] OTHER          -> {})

\* C13: check_abort() runs exactly once per iteration, ahead of the five
\* updates; when the cancellation is seen at the start of iteration i, rows
\* 1..i - 1 of every trajectory have all their updates and no row i of any
\* trajectory is written.
C13_CancellationAtBoundary ==
  (Sampler /\ prior_type \in Regimes) =>
    /\ pc \in Steps => abort_checks = i
    /\ (pc = "loop" /\ returned = "no") => abort_checks = i - 1
    /\ returned = "abort" =>
         /\ abort_checks = i
         /\ \A name \in Trajectories :
              /\ \A r \in 1..(i - 1) : Written(record[name][r])
              /\ ~Written(record[name][i])
         /\ \A r \in DOMAIN record.lvol_record : \A t \in 1..dim :
              /\ r \div num_design < i => Written(record.lvol_record[r][t])
              /\ r \div num_design >= i => ~Written(record.lvol_record[r][t])

\* C14: under the Horseshoe, on every return path, every populated row j of
\* kappa_record is the shrinkage factor of the scales in row j of
\* lambda_record and tau_record, the last row j = num_iter included, and
\* kappa_record is populated for exactly the rows lambda_record and tau_record
\* are populated for.
C14_ShrinkageFactorRows ==
  (Sampler /\ prior_type = 3 /\ returned \in {"abort", "normal"}) =>
    \A n \in 1..Len(result.kappa_record.rows) :
      LET kappa == result.kappa_record.rows[n]
          lambda == result.lambda_record.rows[n]
          tau == result.tau_record.rows[n]
      IN /\ kappa.row = lambda.row /\ kappa.row = tau.row
         /\ Written(kappa.val) => kappa.val = kappa.row
         /\ Written(kappa.val) <=> (Written(lambda.val) /\ Written(tau.val))

\* The segments written for time point t, and those of them holding column c.
SegsOf(t) == {n \in 1..Len(work.reginnov_segs) : work.reginnov_segs[n].t = t}
Covering(t, c) ==
  {n \in SegsOf(t) :
     c \in work.reginnov_segs[n].start..
           (work.reginnov_segs[n].start + work.reginnov_segs[n].len - 1)}
DesignBuilt == Sampler /\ deps.a.iter > 0

\* C15: when the design of the loadings is built, for every time point t and
\* every equation j in 1..dim - 1 the segment [reginnov_id, reginnov_id + j)
\* lies in columns 0..num_lowerchol - 1, num_lowerchol = dim * (dim - 1) / 2;
\* the segments of the different j are disjoint and cover every column exactly
\* once; row 0 of each time block stays zero; reginnov_id is 0 at the start
\* of every time point.
C15_DesignSegments ==
  DesignBuilt =>
    /\ 2 * num_lowerchol = dim * (dim - 1)
    /\ Len(work.reginnov_segs) = num_design * (dim - 1)
    /\ \A n \in 1..Len(work.reginnov_segs) :
         LET seg == work.reginnov_segs[n] IN
         /\ seg.t \in 0..(num_design - 1)
         /\ seg.len \in 1..(dim - 1)
         /\ seg.row = seg.t * dim + seg.len
         /\ 0 <= seg.start
         /\ seg.start + seg.len <= num_lowerchol
    /\ \A t \in 0..(num_design - 1) :
         /\ {work.reginnov_segs[n].len : n \in SegsOf(t)} = 1..(dim - 1)
         /\ Cardinality(SegsOf(t)) = dim - 1
         /\ \A c \in 0..(num_lowerchol - 1) :
              /\ Cardinality(Covering(t, c)) = 1
              /\ work.reginnov_stack[t * dim][c] = RowZero
              /\ \A j \in 1..(dim - 1) :
                   Written(work.reginnov_stack[t * dim + j][c]) <=>
                     \E n \in Covering(t, c) : work.reginnov_segs[n].len = j
    /\ Len(work.reginnov_starts) = num_design
    /\ \A t \in 1..num_design : work.reginnov_starts[t] = 0
    /\ work.reginnov_id = 0
C15_Witness ==
  /\ DesignBuilt /\ dim = 3 /\ num_design = 2 /\ pc = "sigh"
  /\ Len(work.reginnov_segs) = 4
  /\ work.reginnov_segs[4] = [t |-> 1, row |-> 5, start |-> 1, len |-> 2]
  /\ work.reginnov_stack[5] = [c \in 0..2 |-> IF c = 0 THEN RowZero ELSE i]
====
